---- MODULE Spec2Model ----
(***************************************************************************)
(* Hyperplane: the preview slot (hyperplane/item.py, HypItem) and the      *)
(* file-operation handlers with their undo queue (hyperplane/main.py,      *)
(* HypApplication).                                                        *)
(*                                                                         *)
(* SpecItem explores one HypItem being bound, re-bound and unbound while   *)
(* its asynchronous requests complete in any order.  idle_add callbacks    *)
(* are dispatched first-in first-out by the main loop; the model applies   *)
(* a handler's idle_add calls in issue order at the handler's step.        *)
(*                                                                         *)
(* SpecApp explores the handlers of HypApplication on a small filesystem   *)
(* of two pages, A and D: paste (copy and move), trash, undo (by the       *)
(* app.undo action and by the button of a trash toast), cut, copy, the     *)
(* user changing page, the clock, and a toast timing out.  The clipboard   *)
(* text is any text of up to MaxLines lines: __paste reads whatever the    *)
(* clipboard holds.  Every handler is one step; last_op records what the   *)
(* step did, for the properties to refer to.                               *)
(*                                                                         *)
(* __copy, __trash and __rename (as __open) start with                     *)
(* "# TODO: post-flowbox / return", written while the selection is ported  *)
(* away from flow_box; __paste, __cut, __undo and __new_folder have no     *)
(* such return.  post_flowbox says whether those returns are in place.     *)
(* SpecStub is the application as it stands: Copy and Trash return at      *)
(* once.  SpecApp and SpecRename run the statements written after the      *)
(* return: they are the only place a toast key or a "rename" tuple enters  *)
(* undo_queue and the only caller of __undo with a toast.                  *)
(*                                                                         *)
(* SpecSampler explores the directory sampler alone, under the fairness    *)
(* that makes every callback fire.                                         *)
(*                                                                         *)
(* SpecRename explores the rename popover: __rename on a selected child,   *)
(* the user typing in the entry, pressing Enter, clicking the button or    *)
(* closing the popover, and undo.  SpecFolder explores the New Folder      *)
(* dialog in the same way.                                                 *)
(***************************************************************************)
EXTENDS Integers, Sequences, FiniteSets, TLC

\* Number of bind() calls explored on the slot.
MaxBinds == 2

\* Number of generate_thumbnail threads explored in flight at once.
MaxThreads == 1

\* Number of paste and trash batches explored in one run of the application;
\* the user's other actions and the clock are explored up to the last batch.
MaxBatches == 2

\* Largest value of the clock read by time().
MaxClock == 1

\* Largest number of lines of clipboard text, and of selected items.
MaxLines == 2

\* Largest number of __rename calls, each connecting its closures.
MaxRenames == 2

VARIABLES
  file_info,        \* HypItem.file_info: the entry the slot was last bound to
  content_type,     \* HypItem.content_type
  is_dir,           \* HypItem.is_dir
  color,            \* HypItem.color
  ui,               \* the widgets of the slot (picture, play_button, ...)
  enum_pending,     \* enumerate_children_async calls whose callback has not run
  next_pending,     \* next_files_async calls whose callback has not run
  threads,          \* generate_thumbnail threads that have not called back
  gen,              \* number of bind() calls so far; bind number = request id
  bound,            \* the list item is bound (between bind and unbind)
  sampler,          \* per request: children accepted, next_files_async calls
                    \* issued, folder previews delivered
  last_cb,          \* the most recent sink call and what it did
  fs,               \* the filesystem: directory -> name -> node
  trash_can,        \* the platform trash: records of trashed nodes
  undo_queue,       \* HypApplication.undo_queue, in insertion order
  cut_page,         \* HypApplication.cut_page
  visible_page,     \* get_active_window().get_visible_page()
  toasts,           \* the toasts with an Undo button still on screen
  now,              \* the value time() returns
  batches,          \* number of paste and trash handlers run so far
  last_op,          \* the handler that ran last and what it did
  post_flowbox,     \* the "# TODO: post-flowbox / return" stubs are in place
  undone,           \* the batches whose inverse __undo has run
  clip,             \* a Copy ran after the last Cut, and no paste since
  popover,          \* the rename popover: shown, entry text, button sensitive
  renames,          \* the children whose rename closures are connected
  folder            \* the New Folder dialog: open, path, entry text,
                    \* can_create, the "create" response enabled

item_vars == <<file_info, content_type, is_dir, color, ui, enum_pending,
               next_pending, threads, gen, bound, sampler, last_cb>>

app_vars == <<fs, trash_can, undo_queue, cut_page, visible_page, toasts, now,
              batches, last_op, post_flowbox, undone, clip>>

dialog_vars == <<popover, renames, folder>>

vars == <<item_vars, app_vars, dialog_vars>>

-----------------------------------------------------------------------------
(* Entries and textures *)

DirType == "inode/directory"

ContentTypes == {DirType, "video/mp4", "text/plain"}

\* thumbnail_path: "" (no cached thumbnail), "ok" (decodes), "bad" (does not).
ThumbPaths == {"", "ok", "bad"}

\* Gio.FILE_ATTRIBUTE_FILESYSTEM_USE_PREVIEW
PreviewTypes == {"NEVER", "IF_LOCAL"}

\* The entries a slot is bound to.  use_preview is read only for a file without
\* thumbnail path, so the other entries carry one value of it.
FileInfos ==
  {fi \in [content_type : ContentTypes,
           thumbnail_path : ThumbPaths,
           use_preview : PreviewTypes] :
     /\ fi.content_type = DirType => fi.thumbnail_path = ""
     /\ (fi.content_type = DirType \/ fi.thumbnail_path # "")
           => fi.use_preview = "IF_LOCAL"}

NoInfo == [content_type |-> "", thumbnail_path |-> "", use_preview |-> ""]

\* A texture is <<kind, request, stack slot>>; NoTexture is Python's None.
NoTexture == <<"none", 0, 0>>

open_folder_texture == <<"open_folder", 0, 0>>

closed_folder_texture == <<"closed_folder", 0, 0>>

CachedTexture(req, slot) == <<"cached", req, slot>>

GeneratedTexture(req, slot) == <<"generated", req, slot>>

\* hyperplane.utils.symbolics.get_color_for_symbolic: a colour per content type.
get_color_for_symbolic(ct) ==
  CASE ct = DirType -> "blue"
    [] ct = "video/mp4" -> "red"
    [] OTHER -> "gray"

\* content_type.split("/")[0] in ("video", "audio")
IsPlayable(ct) == ct = "video/mp4"

StackSlots == 1..3

InitUi ==
  [picture_visible |-> FALSE,
   play_button_visible |-> FALSE,
   thumbnail_paintable |-> NoTexture,
   thumbnail_css |-> "init",
   icon_css |-> "init",
   extension_css |-> "init",
   dir_thumbnail_visible |-> [k \in StackSlots |-> FALSE],
   dir_thumbnail_css |-> [k \in StackSlots |-> "init"],
   dir_icon_css |-> [k \in StackSlots |-> "init"],
   dir_picture_visible |-> [k \in StackSlots |-> FALSE],
   dir_picture_paintable |-> [k \in StackSlots |-> NoTexture]]

-----------------------------------------------------------------------------
(* The sinks *)

\* play_button.set_visible(texture and content_type.split("/")[0] in
\* ("video", "audio")), evaluated on the texture handed in, before a folder
\* texture replaces it.
PlayVisibleAnyTexture(texture, ct) == IsPlayable(ct)

PlayVisible(texture, ct) == texture # NoTexture /\ IsPlayable(ct)

\* HypItem.__thumbnail_cb(texture, open_folder), reading the slot's current
\* content_type, is_dir and color.
thumbnail_cb(u, texture, open_folder, ct, dir, col) ==
  LET play == PlayVisible(texture, ct)
      tex == IF dir
             THEN (IF open_folder THEN open_folder_texture
                                  ELSE closed_folder_texture)
             ELSE texture
      u1 == [u EXCEPT !.play_button_visible = play,
                      !.picture_visible = (tex # NoTexture),
                      !.dir_thumbnail_visible =
                          IF dir THEN @ ELSE [k \in StackSlots |-> FALSE]]
  IN IF tex # NoTexture
     THEN [u1 EXCEPT !.thumbnail_css =
                         IF dir THEN "dark-blue-background"
                                ELSE "gray-background",
                     !.extension_css = col \o "-extension-thumb",
                     !.thumbnail_paintable = tex]
     ELSE [u1 EXCEPT !.icon_css = col \o "-icon",
                     !.thumbnail_css = col \o "-background",
                     !.extension_css = col \o "-extension"]

\* HypItem.__dir_thumbnail_cb(texture, picture) for dir_picture_<k>.
dir_thumbnail_cb(u, texture, k) ==
  LET u1 == [u EXCEPT !.dir_picture_visible[k] = (texture # NoTexture)]
  IN IF texture = NoTexture
     THEN u1
     ELSE [u1 EXCEPT !.dir_picture_paintable[k] = texture]

\* bool(index) in done(): the open_folder flag handed to __thumbnail_cb.
DoneOpenMutant(index) == (index + 1) # 0

DoneOpen(index) == index # 0

\* done(index): shows the stack slots and delivers the folder preview.
done(u, index, ct, dir, col) ==
  LET u1 == [u EXCEPT !.dir_thumbnail_visible =
                          [k \in StackSlots |-> index + 1 >= k]]
  IN thumbnail_cb(u1, NoTexture, DoneOpen(index), ct, dir, col)

\* The record of a sink call: which request made it, whether the slot had been
\* re-bound (cur is the latest request) or unbound by then, and whether the
\* widgets changed.
CbRecord(req, kind, cur, isbound, u) ==
  [req |-> req, kind |-> kind, stale |-> req # cur, unbound |-> ~isbound,
   changed |-> u # ui]

NoCb == [req |-> 0, kind |-> "none", stale |-> FALSE, unbound |-> FALSE,
         changed |-> FALSE]

NoSample == [accepted |-> 0, delivered |-> FALSE, open |-> FALSE,
             started |-> FALSE, requests |-> 0, deliveries |-> 0]

-----------------------------------------------------------------------------
(* HypItem *)

ItemInit ==
  /\ file_info = NoInfo
  /\ content_type = ""
  /\ is_dir = FALSE
  /\ color = ""
  /\ ui = InitUi
  /\ enum_pending = {}
  /\ next_pending = {}
  /\ threads = {}
  /\ gen = 0
  /\ bound = FALSE
  /\ sampler = [r \in 1..MaxBinds |-> NoSample]
  /\ last_cb = NoCb

\* try: Gdk.Texture.new_from_filename(thumbnail_path) / except GLib.Error:
\* the texture bind hands to __thumbnail_cb, None when decoding fails (or
\* when there is no path, for the call made for a NEVER filesystem).
BindTextureUnchecked(e, req) ==
  IF e.thumbnail_path # "" THEN CachedTexture(req, 0) ELSE NoTexture

BindTexture(e, req) ==
  IF e.thumbnail_path = "ok" THEN CachedTexture(req, 0) ELSE NoTexture

\* FILESYSTEM_USE_PREVIEW is Gio.FilesystemPreviewType.NEVER.
PreviewsNeverIgnored(e) == FALSE

PreviewsNever(e) == e.use_preview = "NEVER"

\* HypItem.bind() with self.item.get_item() = e.
Bind(e) ==
  LET req == gen + 1
      ct == e.content_type
      dir == ct = DirType
      col == get_color_for_symbolic(ct)
      texture == BindTexture(e, req)
      u == thumbnail_cb(ui, texture, FALSE, ct, dir, col)
  IN /\ gen < MaxBinds
     /\ gen' = req
     /\ bound' = TRUE
     /\ file_info' = e
     /\ content_type' = ct
     /\ is_dir' = dir
     /\ color' = col
     /\ IF dir
        THEN /\ enum_pending' = enum_pending \cup {req}
             /\ UNCHANGED <<ui, threads, last_cb>>
        ELSE IF e.thumbnail_path # "" \/ PreviewsNever(e)
        THEN /\ ui' = u
             /\ last_cb' = CbRecord(req, "bind", req, TRUE, u)
             /\ UNCHANGED <<enum_pending, threads>>
        ELSE /\ threads' = threads \cup {[req |-> req, slot |-> 0]}
             /\ UNCHANGED <<ui, enum_pending, last_cb>>
     /\ UNCHANGED <<next_pending, sampler>>

\* HypItem.unbind(): the method body is empty.
Unbind ==
  /\ bound
  /\ bound' = FALSE
  /\ UNCHANGED <<file_info, content_type, is_dir, color, ui, enum_pending,
                 next_pending, threads, gen, sampler, last_cb>>

\* HypItem.__dir_children_cb for the enumerate_children_async of request req;
\* ok is whether enumerate_children_finish returns an enumerator.
DirChildrenCb(req, ok) ==
  LET u == thumbnail_cb(ui, NoTexture, FALSE, content_type, is_dir, color)
  IN /\ req \in enum_pending
     /\ enum_pending' = enum_pending \ {req}
     /\ IF ok
        THEN /\ next_pending' = next_pending \cup {[req |-> req, index |-> 0]}
             /\ sampler' = [sampler EXCEPT ![req].started = TRUE,
                                           ![req].requests = @ + 1]
             /\ UNCHANGED <<ui, last_cb>>
        ELSE /\ ui' = u
             /\ sampler' = [sampler EXCEPT ![req].delivered = TRUE,
                                           ![req].deliveries = @ + 1,
                                           ![req].open = FALSE]
             /\ last_cb' = CbRecord(req, "dir_children", gen, bound, u)
             /\ UNCHANGED next_pending
     /\ UNCHANGED <<file_info, content_type, is_dir, color, threads, gen, bound>>

\* What next_files_finish hands to next_files_cb: an error, an empty list, or
\* one child (without content type, a directory, a file with a decodable or an
\* undecodable cached thumbnail, a file without cached thumbnail, the same
\* in a location whose filesystem reports previews as NEVER).
ChildOutcomes ==
  {"error", "empty", "notype", "dir", "cached", "badcache", "nothumb", "never"}

\* The children for which an exception escapes next_files_cb:
\* Gdk.Texture.new_from_filename(thumbnail_path) is called outside any try,
\* before __dir_thumbnail_cb is entered.
ChildRaises(outcome) == outcome = "badcache"

\* The children for which next_files_cb reaches GLib.Thread.new: those that
\* are not directories and carry no thumbnail path.
ChildStartsThreadAlsoDir(outcome) == outcome \in {"nothumb", "never", "dir"}

ChildStartsThread(outcome) == outcome \in {"nothumb", "never"}

\* The entries and children explored: one that starts a generator thread is
\* drawn only while fewer than MaxThreads threads are in flight.
StartsThread(fi) ==
  /\ fi.content_type # DirType
  /\ fi.thumbnail_path = ""
  /\ fi.use_preview # "NEVER"

BindInputs ==
  {fi \in FileInfos : StartsThread(fi) => Cardinality(threads) < MaxThreads}

NextFilesInputs ==
  {o \in ChildOutcomes :
     ChildStartsThread(o) => Cardinality(threads) < MaxThreads}

\* The number of accepted children at which next_files_cb stops.
StackLimit == 3

\* files.next_files_async(1, ..., next_files_cb, index) after index += 1:
\* the call the callback of p leaves outstanding once it accepted a child.
NextRequestDropped(p, k) == {}

NextRequest(p, k) == {[req |-> p.req, index |-> k]}

\* next_files_cb(enumerator, result, index) of request p.req.
NextFilesCb(p, outcome) ==
  LET index == p.index
      k == index + 1
      ended == outcome \in {"error", "empty", "notype"}
      uEnd == done(dir_thumbnail_cb(ui, NoTexture, k), index,
                   content_type, is_dir, color)
      uFull == done(ui, index - 1, content_type, is_dir, color)
      uCss == [ui EXCEPT
                 !.dir_thumbnail_css[k] =
                     IF outcome = "dir" THEN "light-blue-background white-icon"
                                        ELSE "white-background",
                 !.dir_icon_css[k] =
                     IF outcome = "dir" THEN "init"
                                        ELSE "gray-icon-light-only"]
      uChild == CASE outcome = "dir" -> dir_thumbnail_cb(uCss, NoTexture, k)
                  [] outcome = "cached" ->
                       dir_thumbnail_cb(uCss, CachedTexture(p.req, k), k)
                  [] OTHER -> uCss
      u == IF index = StackLimit THEN uFull
           ELSE IF ended THEN uEnd ELSE uChild
  IN /\ p \in next_pending
     /\ ui' = u
     /\ last_cb' = CbRecord(p.req, "next_files", gen, bound, u)
                     @@ [raised |-> index # StackLimit /\ ChildRaises(outcome)]
     /\ IF index = StackLimit
        THEN /\ next_pending' = next_pending \ {p}
             /\ sampler' = [sampler EXCEPT ![p.req].delivered = TRUE,
                                           ![p.req].deliveries = @ + 1,
                                           ![p.req].open = DoneOpen(index - 1)]
             /\ UNCHANGED threads
        ELSE IF ended
        THEN /\ next_pending' = next_pending \ {p}
             /\ sampler' = [sampler EXCEPT ![p.req].delivered = TRUE,
                                           ![p.req].deliveries = @ + 1,
                                           ![p.req].open = DoneOpen(index)]
             /\ UNCHANGED threads
        ELSE /\ next_pending' = (next_pending \ {p}) \cup NextRequest(p, k)
             /\ sampler' = [sampler EXCEPT ![p.req].accepted = @ + 1,
                                           ![p.req].requests = @ + 1]
             /\ threads' = IF ChildStartsThread(outcome)
                           THEN threads \cup {[req |-> p.req, slot |-> k]}
                           ELSE threads
     /\ UNCHANGED <<file_info, content_type, is_dir, color, enum_pending,
                    gen, bound>>

\* A generate_thumbnail thread calls its callback: __thumbnail_cb for the
\* entry's own picture (slot 0), __dir_thumbnail_cb for a stack slot; got is
\* whether a thumbnail was generated.
ThumbnailThread(t, got) ==
  LET texture == IF got THEN GeneratedTexture(t.req, t.slot) ELSE NoTexture
      u == IF t.slot = 0
           THEN thumbnail_cb(ui, texture, FALSE, content_type, is_dir, color)
           ELSE dir_thumbnail_cb(ui, texture, t.slot)
  IN /\ t \in threads
     /\ threads' = threads \ {t}
     /\ ui' = u
     /\ last_cb' = CbRecord(t.req, "thread", gen, bound, u)
     /\ UNCHANGED <<file_info, content_type, is_dir, color, enum_pending,
                    next_pending, gen, bound, sampler>>

NextItem ==
  \/ \E e \in BindInputs : Bind(e) /\ UNCHANGED <<app_vars, dialog_vars>>
  \/ Unbind /\ UNCHANGED <<app_vars, dialog_vars>>
  \/ \E req \in enum_pending, ok \in BOOLEAN :
       DirChildrenCb(req, ok) /\ UNCHANGED <<app_vars, dialog_vars>>
  \/ \E p \in next_pending, outcome \in NextFilesInputs :
       NextFilesCb(p, outcome) /\ UNCHANGED <<app_vars, dialog_vars>>
  \/ \E t \in threads, got \in BOOLEAN :
       ThumbnailThread(t, got) /\ UNCHANGED <<app_vars, dialog_vars>>

\* The sampler alone: the slot is bound to directories whose children need
\* no generator thread, and the callback of every request made is delivered
\* in the end (GLib calls the callback of an asynchronous operation once).
DirInputs == {e \in FileInfos : e.content_type = DirType}

SamplerInputs == {o \in ChildOutcomes : ~ChildStartsThread(o)}

NextSampler ==
  \/ \E e \in DirInputs : Bind(e) /\ UNCHANGED <<app_vars, dialog_vars>>
  \/ \E req \in enum_pending, ok \in BOOLEAN :
       DirChildrenCb(req, ok) /\ UNCHANGED <<app_vars, dialog_vars>>
  \/ \E p \in next_pending, outcome \in SamplerInputs :
       NextFilesCb(p, outcome) /\ UNCHANGED <<app_vars, dialog_vars>>

CallbacksFire ==
  /\ \A r \in 1..MaxBinds :
       WF_vars(\E ok \in BOOLEAN :
                 DirChildrenCb(r, ok) /\ UNCHANGED <<app_vars, dialog_vars>>)
  /\ \A r \in 1..MaxBinds :
       WF_vars(\E p \in next_pending, outcome \in SamplerInputs :
                 /\ p.req = r
                 /\ NextFilesCb(p, outcome)
                 /\ UNCHANGED <<app_vars, dialog_vars>>)

-----------------------------------------------------------------------------
(* The filesystem seen by HypApplication *)

\* The directories shown as pages, and the names of their entries.
Tops == {"A", "D"}

Names == {"x", "c"}

\* A path is <<directory, name>> or <<directory, name, name>>.
Paths == (Tops \X Names) \cup (Tops \X Names \X Names)

\* A clipboard line that is a tag, not a file URI.
TagLine == <<"hyperplane://">>

\* A node: nothing, a file with its content, or a directory with its children
\* (files).  The content of a file names the path it was first seen at.
NoKids == [n \in Names |-> <<>>]

NoNode == [k |-> "none", c |-> <<>>, kids |-> NoKids]

FileNode(c) == [k |-> "file", c |-> c, kids |-> NoKids]

DirNode(kids) == [k |-> "dir", c |-> <<>>, kids |-> kids]

\* The node at path p (Path.exists, is_dir, is_file read its kind).
Get(f, p) ==
  IF Len(p) = 2 THEN f[p[1]][p[2]]
  ELSE LET parent == f[p[1]][p[2]]
       IN IF parent.k = "dir" /\ parent.kids[p[3]] # <<>>
          THEN FileNode(parent.kids[p[3]])
          ELSE NoNode

Exists(f, p) == Get(f, p).k # "none"

IsDir(f, p) == Get(f, p).k = "dir"

IsFile(f, p) == Get(f, p).k = "file"

\* The directory holding p exists.
ParentIsDir(f, p) == Len(p) = 2 \/ f[p[1]][p[2]].k = "dir"

\* Whether node fits at path p: a directory only directly under a page.
Fits(p, node) == Len(p) = 2 \/ node.k # "dir"

Put(f, p, node) ==
  IF Len(p) = 2 THEN [f EXCEPT ![p[1]][p[2]] = node]
  ELSE [f EXCEPT ![p[1]][p[2]].kids[p[3]] = node.c]

Remove(f, p) == Put(f, p, NoNode)

Last(p) == p[Len(p)]

Range(seq) == {seq[i] : i \in 1..Len(seq)}

\* shutil.move(src, dst) as os.rename does it, dst being a directory page:
\* the target is dst / src.name and must not exist; oserr is an OS-level
\* failure (permission, failed cross-device copy).
MoveInto(f, src, page, oserr) ==
  LET real_dst == <<page, Last(src)>>
  IN IF Exists(f, real_dst) \/ oserr
     THEN [ok |-> FALSE, fs |-> f]
     ELSE [ok |-> TRUE, fs |-> Put(Remove(f, src), real_dst, Get(f, src))]

\* shutil.copyfile(src, dst): fails on the same file, on a directory at dst and
\* on an OS error; otherwise it creates dst or replaces its content.
CopyFile(f, src, dst, oserr) ==
  IF src = dst \/ IsDir(f, dst) \/ oserr
  THEN [ok |-> FALSE, fs |-> f]
  ELSE [ok |-> TRUE, fs |-> Put(f, dst, FileNode(Get(f, src).c))]

\* shutil.copytree(src, dst): FileExistsError when dst exists; another error
\* (shutil.Error, PermissionError) leaves the directory created so far.
CopyTree(f, src, dst, oserr) ==
  IF Exists(f, dst) THEN [ok |-> FALSE, exists |-> TRUE, fs |-> f]
  ELSE IF oserr
  THEN [ok |-> FALSE, exists |-> FALSE, fs |-> Put(f, dst, DirNode(NoKids))]
  ELSE [ok |-> TRUE, exists |-> FALSE, fs |-> Put(f, dst, Get(f, src))]

-----------------------------------------------------------------------------
(* The undo queue: a dict in insertion order *)

NoPage == ""

TimeKey(t) == [kind |-> "time", id |-> t]

ToastKey(n) == [kind |-> "toast", id |-> n]

\* The tuples stored in the queue: ("copy", paths, page),
\* ("cut", pairs, page, cut_page), ("trash", files, page).
CopyItem(paths, page) ==
  [kind |-> "copy", paths |-> paths, pairs |-> <<>>, files |-> <<>>,
   page |-> page, cut_page |-> NoPage]

CutItem(pairs, page, cut) ==
  [kind |-> "cut", paths |-> <<>>, pairs |-> pairs, files |-> <<>>,
   page |-> page, cut_page |-> cut]

TrashItem(files, page) ==
  [kind |-> "trash", paths |-> <<>>, pairs |-> <<>>, files |-> files,
   page |-> page, cut_page |-> NoPage]

Keys(q) == {q[i].key : i \in 1..Len(q)}

IndexOf(q, key) == CHOOSE i \in 1..Len(q) : q[i].key = key

\* undo_queue[key] = item: a key already present keeps its position.  n, the
\* number of the batch that stored the item, tells the entries apart.
DictSet(q, key, item, n) ==
  IF key \in Keys(q)
  THEN [q EXCEPT ![IndexOf(q, key)] = [key |-> key, item |-> item, n |-> n]]
  ELSE Append(q, [key |-> key, item |-> item, n |-> n])

\* The batch numbers of the entries of q, in queue order.
Batches(q) == [i \in 1..Len(q) |-> q[i].n]

\* q without its i-th entry.
Without(q, i) == SubSeq(q, 1, i - 1) \o SubSeq(q, i + 1, Len(q))

RECURSIVE SeqMax(_)
SeqMax(ns) ==
  IF ns = <<>> THEN 0
  ELSE LET m == SeqMax(Tail(ns))
       IN IF Head(ns) > m THEN Head(ns) ELSE m

\* undo_queue.popitem(): removes the pair inserted last.
PopItem(q) == SubSeq(q, 1, Len(q) - 1)

-----------------------------------------------------------------------------
(* HypApplication.__paste *)

\* The outcome of the for loop of __callback over the clipboard lines: the
\* filesystem, the paths recorded, the lines a move or copy was attempted for,
\* those among them whose exception was caught, and whether an exception left
\* the loop.  outs[i] is whether the OS fails the operation on line i.
RECURSIVE PasteLoop(_, _, _, _, _, _, _)

\* A move whose exception is caught ends with break instead of continue.
PasteBreak(f, lines, outs, i, page, cut, acc) ==
  [fs |-> f, paths |-> acc.paths, tried |-> acc.tried,
   failed |-> acc.failed, raised |-> FALSE]

\* except (OSError, ...): continue -- the loop goes on with the next line.
PasteContinue(f, lines, outs, i, page, cut, acc) ==
  PasteLoop(f, lines, outs, i + 1, page, cut, acc)

PasteLoop(f, lines, outs, i, page, cut, acc) ==
  IF i > Len(lines)
  THEN [fs |-> f, paths |-> acc.paths, tried |-> acc.tried,
        failed |-> acc.failed, raised |-> FALSE]
  ELSE
    LET src == lines[i]
        dst == <<page, Last(src)>>
        mv == MoveInto(f, src, page, outs[i])
        ct == CopyTree(f, src, dst, outs[i])
        cf == CopyFile(f, src, dst, outs[i])
        t2 == Append(acc.tried, i)
        okCut == [paths |-> Append(acc.paths, <<src, dst>>), tried |-> t2,
                  failed |-> acc.failed]
        okCopy == [paths |-> Append(acc.paths, dst), tried |-> t2,
                   failed |-> acc.failed]
        caught == [paths |-> acc.paths, tried |-> t2,
                   failed |-> acc.failed \cup {i}]
    IN IF src = TagLine THEN PasteLoop(f, lines, outs, i + 1, page, cut, acc)
       ELSE IF ~Exists(f, src)
       THEN PasteLoop(f, lines, outs, i + 1, page, cut, acc)
       ELSE IF cut
       THEN IF mv.ok
            THEN PasteLoop(mv.fs, lines, outs, i + 1, page, cut, okCut)
            ELSE PasteContinue(f, lines, outs, i, page, cut, caught)
       ELSE IF IsDir(f, src)
       THEN IF ct.ok
            THEN PasteLoop(ct.fs, lines, outs, i + 1, page, cut, okCopy)
            ELSE IF ct.exists
            THEN PasteLoop(f, lines, outs, i + 1, page, cut, caught)
            ELSE [fs |-> ct.fs, paths |-> acc.paths, tried |-> t2,
                  failed |-> acc.failed, raised |-> TRUE]
       ELSE IF cf.ok
            THEN PasteLoop(cf.fs, lines, outs, i + 1, page, cut, okCopy)
            ELSE PasteLoop(f, lines, outs, i + 1, page, cut, caught)

\* What a handler leaves in last_op: the handler and its inputs (arg, lines),
\* whether an exception escaped it, the pages it refreshed, the batch it
\* pushed, the batch whose inverse it ran, the batch it removed from the
\* queue, the outcome of its loop, the queue and the filesystem it started
\* from, and for an undo the handler that ran before it.
OpRecord(op, arg, raised, refreshed, pushed, ran, removed, lines, r, prev) ==
  [op |-> op, arg |-> arg, raised |-> raised, refreshed |-> refreshed,
   pushed |-> pushed, ran |-> ran, removed |-> removed, lines |-> lines,
   tried |-> r.tried, failed |-> r.failed, paths |-> r.paths,
   mode |-> IF cut_page # NoPage THEN "cut" ELSE "copy",
   page |-> visible_page, queue_before |-> Batches(undo_queue),
   fs_before |-> fs, clip |-> clip, prev |-> prev]

NoKey == [kind |-> "none", id |-> 0]

NoLoop == [tried |-> <<>>, failed |-> {}, paths |-> <<>>]

NoPrev == <<>>

\* What an undo keeps of the handler before it: the record of a paste, the
\* name of any other handler.
PrevOp(o) == IF o.op = "paste" THEN o ELSE [op |-> o.op]

\* The clipboard texts explored: a tag alone, or up to MaxLines lines, no
\* line twice, each the URI of an entry of A or of the child c of A/x.
ClipboardLines ==
  {p \in Paths : p[1] = "A" /\ (Len(p) = 3 => p[2] = "x" /\ p[3] = "c")}

ClipboardTexts ==
  {ls \in UNION {[1..n -> ClipboardLines] : n \in 1..MaxLines} :
     \A i, j \in 1..Len(ls) : i # j => ls[i] # ls[j]}
  \cup {<<TagLine>>}

\* What __callback does once its loop has ended with outcome r.
PasteEnd(lines, r) ==
  LET page == visible_page
      cut == cut_page # NoPage
      n == batches + 1
      item == IF cut THEN CutItem(r.paths, page, cut_page)
                     ELSE CopyItem(r.paths, page)
  IN /\ batches' = n
     /\ fs' = r.fs
     /\ IF r.raised
        THEN /\ UNCHANGED <<undo_queue, cut_page>>
             /\ last_op' = OpRecord("paste", NoKey, TRUE, {}, 0, 0, 0,
                                    lines, r, NoPrev)
        ELSE /\ undo_queue' = DictSet(undo_queue, TimeKey(now), item, n)
             /\ cut_page' = NoPage
             /\ last_op' = OpRecord("paste", NoKey, FALSE,
                                    IF cut THEN {page, cut_page} ELSE {page},
                                    n, 0, 0, lines, r, NoPrev)

\* __paste and its read_text_async callback, the clipboard text read being
\* lines and outs the OS failures met (on lines the loop attempts).
Paste(lines, outs) ==
  /\ batches < MaxBatches
  /\ \E r \in {PasteLoop(fs, lines, outs, 1, visible_page, cut_page # NoPage,
                         NoLoop)} :
       /\ \A i \in 1..Len(lines) : outs[i] => i \in Range(r.tried)
       /\ PasteEnd(lines, r)
  /\ clip' = FALSE
  /\ UNCHANGED <<trash_can, visible_page, toasts, now, post_flowbox, undone>>

-----------------------------------------------------------------------------
(* HypApplication.__cut, __copy, __trash *)

\* __copy: returns at once while the post-flowbox stub is in place; without
\* it, resets cut_page (the selection goes to the clipboard).
Copy ==
  /\ batches < MaxBatches
  /\ cut_page' = IF post_flowbox THEN cut_page ELSE NoPage
  /\ clip' = (clip \/ cut_page # NoPage)
  /\ UNCHANGED <<fs, trash_can, undo_queue, visible_page, toasts, now,
                 batches, last_op, post_flowbox, undone>>

\* __cut: __copy, then cut_page is the visible page.
Cut ==
  /\ batches < MaxBatches
  /\ cut_page' = visible_page
  /\ clip' = FALSE
  /\ UNCHANGED <<fs, trash_can, undo_queue, visible_page, toasts, now,
                 batches, last_op, post_flowbox, undone>>

\* The for loop of __trash over the selected children: trash() moves the item
\* to the trash unless it raises GLib.Error (outs[i]).
RECURSIVE TrashLoop(_, _, _, _, _, _, _)

\* An item whose trash() raised is recorded all the same.
TrashExceptRecords(files, rec) == Append(files, rec)

\* except GLib.Error: pass -- nothing is recorded for the item.
TrashExcept(files, rec) == files

TrashLoop(f, tc, sel, outs, i, page, files) ==
  IF i > Len(sel) THEN [fs |-> f, trash |-> tc, files |-> files]
  ELSE LET p == <<page, sel[i]>>
           rec == [path |-> p, t |-> now]
           obj == [path |-> p, t |-> now, node |-> Get(f, p)]
       IN IF outs[i]
          THEN TrashLoop(f, tc, sel, outs, i + 1, page, TrashExcept(files, rec))
          ELSE TrashLoop(Remove(f, p), tc \cup {obj}, sel, outs, i + 1, page,
                         Append(files, rec))

\* The selections explored: up to MaxLines entries of the visible page, in
\* the order of the listing (c before x).
Selections ==
  {sel \in UNION {[1..n -> Names] : n \in 1..MaxLines} :
     /\ \A i, j \in 1..Len(sel) : i < j => sel[i] = "c" /\ sel[j] = "x"
     /\ \A i \in 1..Len(sel) : Exists(fs, <<visible_page, sel[i]>>)}

\* What __trash leaves in last_op: the selected paths as lines, the items
\* whose trash() raised as failed.
TrashRecord(sel, outs, refreshed, pushed) ==
  OpRecord("trash", NoKey, FALSE, refreshed, pushed, 0, 0,
           [i \in 1..Len(sel) |-> <<visible_page, sel[i]>>],
           [tried |-> [i \in 1..Len(sel) |-> i],
            failed |-> {i \in 1..Len(sel) : outs[i]},
            paths |-> <<>>],
           NoPrev)

\* __trash with the children sel selected: returns at once while the
\* post-flowbox stub is in place.
Trash(sel, outs) ==
  LET page == visible_page
      n == batches + 1
      toast == ToastKey(n)
  IN /\ batches < MaxBatches
     /\ IF post_flowbox
        THEN UNCHANGED <<fs, trash_can, undo_queue, toasts, batches, last_op>>
        ELSE \E r \in {TrashLoop(fs, trash_can, sel, outs, 1, page, <<>>)} :
             /\ batches' = n
             /\ fs' = r.fs
             /\ trash_can' = r.trash
             /\ IF r.files = <<>>
                THEN /\ UNCHANGED <<undo_queue, toasts>>
                     /\ last_op' = TrashRecord(sel, outs, {}, 0)
                ELSE /\ undo_queue' =
                          DictSet(undo_queue, toast, TrashItem(r.files, page), n)
                     /\ toasts' = toasts \cup {toast}
                     /\ last_op' = TrashRecord(sel, outs, {page}, n)
     /\ UNCHANGED <<cut_page, visible_page, now, post_flowbox, undone, clip>>

-----------------------------------------------------------------------------
(* Names typed in the rename entry, and Gio.File.set_display_name *)

\* The text of the entry is a sequence of characters.
Texts == {<<>>, <<" ">>, <<"x">>, <<"c">>, <<"x", "/", "c">>}

RECURSIVE LStrip(_)
LStrip(t) == IF t # <<>> /\ Head(t) = " " THEN LStrip(Tail(t)) ELSE t

RECURSIVE RStrip(_)
RStrip(t) ==
  IF t # <<>> /\ t[Len(t)] = " " THEN RStrip(SubSeq(t, 1, Len(t) - 1)) ELSE t

\* str.strip()
Strip(t) == RStrip(LStrip(t))

\* path.name as a text.
NameText(p) == <<Last(p)>>

\* The sibling of p that the text names, when it names one.
IsName(t) == Len(t) = 1 /\ t[1] \in Names

Sibling(p, t) == <<p[1], t[1]>>

\* validate_name(path, name, True), the name-validity policy: the name is not
\* empty, holds no path separator, and is not the name of an existing
\* sibling unless it is the current name.
validate_name(f, p, t) ==
  /\ t # <<>>
  /\ "/" \notin Range(t)
  /\ IsName(t)
  /\ Exists(f, Sibling(p, t)) => t = NameText(p)

\* gfile.set_display_name(name) on a local file: GLib.Error for a name with
\* a separator (INVALID_ARGUMENT), for a target that exists, the file itself
\* and, for the empty name, its directory included (EXISTS), for a file that
\* is gone and for an OS failure of the rename (oserr); otherwise the file is
\* renamed within its directory and the new file is returned.
set_display_name_replaces(f, p, t, oserr) ==
  IF ~IsName(t) \/ ~Exists(f, p) \/ oserr
  THEN [ok |-> FALSE, fs |-> f, new_file |-> p]
  ELSE [ok |-> TRUE, fs |-> Put(Remove(f, p), Sibling(p, t), Get(f, p)),
        new_file |-> Sibling(p, t)]

set_display_name(f, p, t, oserr) ==
  IF "/" \in Range(t) \/ t = <<>> \/ ~IsName(t)
  THEN [ok |-> FALSE, fs |-> f, new_file |-> p]
  ELSE IF Exists(f, Sibling(p, t)) \/ ~Exists(f, p) \/ oserr
  THEN [ok |-> FALSE, fs |-> f, new_file |-> p]
  ELSE [ok |-> TRUE, fs |-> Put(Remove(f, p), Sibling(p, t), Get(f, p)),
        new_file |-> Sibling(p, t)]

\* The tuple ("rename", new_file, old_name, page).
RenameItem(new_file, old_name, page) ==
  [kind |-> "rename", paths |-> <<new_file>>, pairs |-> <<>>, files |-> <<>>,
   page |-> page, cut_page |-> NoPage, old_name |-> old_name]

-----------------------------------------------------------------------------
(* HypApplication.__undo *)

\* shutil.move(src, dst) of the "cut" case: into dst when dst is a directory,
\* else onto dst.  fits is whether the result stays within the paths explored.
MoveBack(f, src, dst) ==
  LET node == Get(f, src)
      inside == dst \o <<Last(src)>>
  IN IF IsDir(f, dst)
     THEN IF Len(dst) # 2 \/ ~Fits(inside, node)
          THEN [raised |-> FALSE, fits |-> FALSE, fs |-> f]
          ELSE IF Exists(f, inside)
          THEN [raised |-> TRUE, fits |-> TRUE, fs |-> f]
          ELSE [raised |-> FALSE, fits |-> TRUE,
                fs |-> Put(Remove(f, src), inside, node)]
     ELSE IF ~Fits(dst, node)
     THEN [raised |-> FALSE, fits |-> FALSE, fs |-> f]
     ELSE IF ~ParentIsDir(f, dst)
     THEN [raised |-> TRUE, fits |-> TRUE, fs |-> f]
     ELSE IF Exists(f, dst) /\ node.k = "dir"
     THEN [raised |-> TRUE, fits |-> TRUE, fs |-> f]
     ELSE [raised |-> FALSE, fits |-> TRUE,
           fs |-> Put(Remove(f, src), dst, node)]

\* case "copy": rmtree(ignore_errors=True) or unlink(missing_ok=True) of
\* every recorded path; outs[i] is whether the OS fails the removal of path i.
\* rmtree swallows the failure, unlink raises it.
RECURSIVE UndoCopy(_, _, _, _)
UndoCopy(f, paths, outs, i) ==
  IF i > Len(paths) THEN [raised |-> FALSE, fits |-> TRUE, fs |-> f]
  ELSE IF IsDir(f, paths[i])
  THEN UndoCopy(IF outs[i] THEN f ELSE Remove(f, paths[i]), paths, outs, i + 1)
  ELSE IF Exists(f, paths[i]) /\ outs[i]
  THEN [raised |-> TRUE, fits |-> TRUE, fs |-> f]
  ELSE UndoCopy(Remove(f, paths[i]), paths, outs, i + 1)

\* case "cut": every recorded pair whose destination exists is moved back, in
\* the order recorded; an exception of shutil.move (outs[i]: the OS fails the
\* move of pair i) leaves the loop.
RECURSIVE UndoCut(_, _, _, _)
UndoCut(f, pairs, outs, i) ==
  IF i > Len(pairs) THEN [raised |-> FALSE, fits |-> TRUE, fs |-> f]
  ELSE LET src == pairs[i][1]
           dst == pairs[i][2]
           m == MoveBack(f, dst, src)
       IN IF ~Exists(f, dst) THEN UndoCut(f, pairs, outs, i + 1)
          ELSE IF outs[i] THEN [raised |-> TRUE, fits |-> TRUE, fs |-> f]
          ELSE IF m.raised \/ ~m.fits THEN m
          ELSE UndoCut(m.fs, pairs, outs, i + 1)

\* hyperplane.utils.restore_file.restore_file(path, t): the trashed object
\* recorded for path at time t goes back to path; nothing happens when it is
\* not found or path is taken.
restore_file(st, path, t) ==
  LET found == {rec \in st.trash : rec.path = path /\ rec.t = t}
      rec == CHOOSE x \in found : TRUE
  IN IF found = {} \/ Exists(st.fs, path) \/ ~ParentIsDir(st.fs, path)
     THEN st
     ELSE [fs |-> Put(st.fs, path, rec.node), trash |-> st.trash \ {rec}]

\* case "trash": restore_file for every recorded file.
RECURSIVE UndoTrash(_, _, _)
UndoTrash(st, files, i) ==
  IF i > Len(files) THEN st
  ELSE UndoTrash(restore_file(st, files[i].path, files[i].t), files, i + 1)

\* The match statement of __undo on the stored tuple.
UndoItem(item, outs) ==
  LET st == [fs |-> fs, trash |-> trash_can]
      p == UndoCopy(fs, item.paths, outs, 1)
      c == UndoCut(fs, item.pairs, outs, 1)
      t == UndoTrash(st, item.files, 1)
      n == set_display_name(fs, item.paths[1], item.old_name, outs[1])
  IN CASE item.kind = "copy" ->
            [raised |-> p.raised, fits |-> TRUE, trash |-> trash_can,
             fs |-> p.fs,
             refreshed |-> {item.page, visible_page}]
       [] item.kind = "cut" ->
            [raised |-> c.raised, fits |-> c.fits, trash |-> trash_can,
             fs |-> c.fs,
             refreshed |-> {item.page, item.cut_page, visible_page}]
       [] item.kind = "rename" ->
            [raised |-> FALSE, fits |-> TRUE, trash |-> trash_can,
             fs |-> n.fs,
             refreshed |-> IF n.ok THEN {item.page, visible_page} ELSE {}]
       [] item.kind = "trash" ->
            [raised |-> FALSE, fits |-> TRUE, trash |-> t.trash, fs |-> t.fs,
             refreshed |-> {item.page, visible_page}]

\* index = toast if isinstance(toast, Adw.Toast) else the last key.
UndoIndex(arg) ==
  IF arg.kind = "toast" THEN arg ELSE undo_queue[Len(undo_queue)].key

\* What __undo removes at its end.
UndoRemove(q, index) == PopItem(q)

NoItem == [kind |-> "none"]

\* What __undo leaves in last_op: besides the fields of every handler, the
\* tuple it selected and whether that tuple's inverse had run before.
UndoRecord(arg, raised, refreshed, ran, removed, item) ==
  OpRecord("undo", arg, raised, refreshed, 0, ran, removed, <<>>, NoLoop,
           PrevOp(last_op))
    @@ [item |-> item, again |-> ran \in undone]

\* "if not self.undo_queue: return": what __undo leaves in last_op when the
\* queue is empty; without the test, tuple(keys)[-1] raises IndexError.
UndoEmptyRaises(arg) == UndoRecord(arg, TRUE, {}, 0, 0, NoItem)

UndoEmpty(arg) == UndoRecord(arg, FALSE, {}, 0, 0, NoItem)

\* __undo(toast): arg is the toast whose button was clicked, or NoKey when
\* the app.undo action calls it; outs are the OS failures met.
Undo(arg, outs) ==
  LET index == UndoIndex(arg)
      entry == undo_queue[IndexOf(undo_queue, index)]
  IN /\ arg.kind = "toast" => arg \in toasts
     /\ \A i \in 1..MaxLines :
          outs[i] => /\ undo_queue # <<>>
                     /\ index \in Keys(undo_queue)
                     /\ i <= Len(entry.item.paths) + Len(entry.item.pairs)
     /\ IF undo_queue = <<>>
        THEN /\ last_op' = UndoEmpty(arg)
             /\ UNCHANGED <<fs, trash_can, undo_queue, toasts, undone>>
        ELSE IF index \notin Keys(undo_queue)
        THEN /\ last_op' = UndoRecord(arg, TRUE, {}, 0, 0, NoItem)
             /\ UNCHANGED <<fs, trash_can, undo_queue, toasts, undone>>
        ELSE \E r \in {UndoItem(entry.item, outs)} :
             /\ r.fits
             /\ fs' = r.fs
             /\ trash_can' = r.trash
             /\ undone' = undone \cup {entry.n}
             /\ IF r.raised
                THEN /\ last_op' = UndoRecord(arg, TRUE, {}, entry.n, 0,
                                              entry.item)
                     /\ UNCHANGED <<undo_queue, toasts>>
                ELSE /\ undo_queue' = UndoRemove(undo_queue, index)
                     /\ toasts' = toasts \ {index}
                     /\ last_op' = UndoRecord(arg, FALSE, r.refreshed, entry.n,
                                              undo_queue[Len(undo_queue)].n,
                                              entry.item)
     /\ UNCHANGED <<cut_page, visible_page, now, batches, post_flowbox, clip>>

-----------------------------------------------------------------------------
(* HypApplication.__rename and its closures rename and set_incative *)

\* The children the selection can hold: the entries of the visible page.
Children == {p \in Paths : Len(p) = 2 /\ p[1] = visible_page /\ Exists(fs, p)}

\* set_incative of the closure made for path, the popover being visible:
\* the sensitivity it gives the button.
set_incative(f, path, text) ==
  IF Strip(text) = <<>> THEN FALSE ELSE validate_name(f, path, Strip(text))

\* "except GLib.Error: pass": the queue after a rename that failed.
RenameExcept(q, key, item, n) == q

\* One call of the closure rename made for child, st being the filesystem,
\* the queue and the number of entries stored before it: set_display_name
\* with the stripped text, and on success the update of the visible page and
\* the entry stored under time().  What the call did is appended to calls:
\* valid is what the policy says of the name for this child when the user
\* confirms, identical whether the name is the one the child has now.
RenameCall(st, child, text, oserr) ==
  LET t == Strip(text)
      r == set_display_name(st.fs, child, t, oserr)
      item == RenameItem(r.new_file, NameText(child), visible_page)
      q == IF r.ok THEN DictSet(st.queue, TimeKey(now), item, st.n + 1)
                   ELSE RenameExcept(st.queue, TimeKey(now), item, st.n + 1)
  IN [fs |-> r.fs, queue |-> q, n |-> IF r.ok THEN st.n + 1 ELSE st.n,
      refreshed |-> IF r.ok THEN st.refreshed \cup {visible_page}
                            ELSE st.refreshed,
      calls |-> Append(st.calls,
                       [child |-> child, name |-> t, ok |-> r.ok,
                        valid |-> validate_name(fs, child, t),
                        identical |-> Exists(st.fs, child) /\ t = NameText(child),
                        unchanged |-> q = st.queue])]

\* The signal reaches every closure connected, in the order of connection.
RECURSIVE RenameCalls(_, _, _, _)
RenameCalls(st, i, text, outs) ==
  IF i > Len(renames) THEN st
  ELSE RenameCalls(RenameCall(st, renames[i], text, outs[i]), i + 1, text, outs)

\* __rename on the selected child: returns at once while the post-flowbox
\* stub is in place; without it, the entry shows the name of the child, the
\* closures are connected (those of earlier calls stay connected) and the
\* popover opens, which runs set_incative.
Rename(child) ==
  /\ ~popover.visible
  /\ batches < MaxBatches
  /\ Len(renames) < MaxRenames
  /\ IF post_flowbox
     THEN UNCHANGED <<popover, renames>>
     ELSE /\ renames' = Append(renames, child)
          /\ popover' = [visible |-> TRUE, text |-> NameText(child),
                         sensitive |-> set_incative(fs, child, NameText(child))]
  /\ UNCHANGED <<app_vars, folder>>

\* The user edits the entry: "changed" runs set_incative; the closure
\* connected last decides the sensitivity left on the button.
Type(text) ==
  /\ popover.visible
  /\ text # popover.text
  /\ popover' = [popover EXCEPT !.text = text,
                   !.sensitive = set_incative(fs, Last(renames), text)]
  /\ UNCHANGED <<renames, folder, app_vars>>

\* What a confirmation leaves in last_op: how it was given (via) and what
\* each closure called did.
RenameRecord(via, r) ==
  OpRecord("rename", NoKey, FALSE, r.refreshed,
           IF r.n > batches THEN r.n ELSE 0, 0, 0, <<>>, NoLoop, NoPrev)
    @@ [via |-> via, calls |-> r.calls]

\* The user confirms: Enter in the entry ("entry-activated") or a click on
\* the button ("clicked", which needs the button sensitive).  Every closure
\* rename connected runs, then the popover is closed.  outs are the OS
\* failures met.
Confirm(via, outs) ==
  /\ popover.visible
  /\ via = "clicked" => popover.sensitive
  /\ \E r \in {RenameCalls([fs |-> fs, queue |-> undo_queue, n |-> batches,
                             refreshed |-> {}, calls |-> <<>>],
                            1, popover.text, outs)} :
       /\ \A i \in 1..MaxRenames : outs[i] => i <= Len(renames)
       /\ fs' = r.fs
       /\ undo_queue' = r.queue
       /\ batches' = r.n
       /\ last_op' = RenameRecord(via, r)
  /\ popover' = [popover EXCEPT !.visible = FALSE]
  /\ UNCHANGED <<renames, folder, trash_can, cut_page, visible_page, toasts,
                 now, post_flowbox, undone, clip>>

\* The user closes the popover without confirming.
Dismiss ==
  /\ popover.visible
  /\ popover' = [popover EXCEPT !.visible = FALSE]
  /\ UNCHANGED <<renames, folder, app_vars>>

-----------------------------------------------------------------------------
(* HypApplication.__new_folder and its closures set_incative, create_folder *)

\* validate_name(path, name), the name-validity policy for a new entry of
\* the directory path: the name is not empty, holds no path separator and
\* is not the name of an existing entry.
validate_new_name(f, path, t) ==
  /\ t # <<>>
  /\ "/" \notin Range(t)
  /\ IsName(t)
  /\ ~Exists(f, <<path, t[1]>>)

\* Path(path, name).mkdir(parents=True, exist_ok=True): nothing happens when
\* the target is a directory (the empty name gives path itself),
\* FileExistsError when it is a file, OSError on an OS failure (oserr).
\* fits is whether the result stays within the paths explored: a name with
\* a separator would create nested directories.
Mkdir(f, path, t, oserr) ==
  IF t = <<>> THEN [raised |-> FALSE, fits |-> TRUE, fs |-> f]
  ELSE IF ~IsName(t) THEN [raised |-> FALSE, fits |-> FALSE, fs |-> f]
  ELSE IF IsDir(f, <<path, t[1]>>)
  THEN [raised |-> FALSE, fits |-> TRUE, fs |-> f]
  ELSE IF IsFile(f, <<path, t[1]>>) \/ oserr
  THEN [raised |-> TRUE, fits |-> TRUE, fs |-> f]
  ELSE [raised |-> FALSE, fits |-> TRUE,
        fs |-> Put(f, <<path, t[1]>>, DirNode(NoKids))]

\* __new_folder on a page that has a path: the dialog opens with an empty
\* entry, can_create False and the "create" response disabled.
NewFolder ==
  /\ ~folder.open
  /\ ~popover.visible
  /\ folder' = [open |-> TRUE, path |-> visible_page, text |-> <<>>,
                can_create |-> FALSE, enabled |-> FALSE]
  /\ UNCHANGED <<popover, renames, app_vars>>

\* set_incative of the dialog: what "changed" leaves in can_create and in
\* the enabled state of "create".
FolderValid(f, path, text) ==
  IF Strip(text) = <<>> THEN FALSE
  ELSE validate_new_name(f, path, Strip(text))

\* The user edits the entry of the dialog.
FolderType(text) ==
  /\ folder.open
  /\ text # folder.text
  /\ folder' = [folder EXCEPT
                  !.text = text,
                  !.can_create = FolderValid(fs, folder.path, text),
                  !.enabled = FolderValid(fs, folder.path, text)]
  /\ UNCHANGED <<popover, renames, app_vars>>

\* "if not can_create: return" in create_folder.
CanCreateIgnored(can_create) == TRUE

CanCreate(can_create) == can_create

\* What create_folder leaves in last_op: how it was reached (via), the text
\* of the entry, and whether mkdir was called.
FolderRecord(via, raised, refreshed, called) ==
  OpRecord("new_folder", NoKey, raised, refreshed, 0, 0, 0, <<>>, NoLoop,
           NoPrev)
    @@ [via |-> via, text |-> folder.text, path |-> folder.path,
        mkdir |-> called]

\* create_folder, reached by the "create" response (which must be enabled
\* to be given) or by Enter in the entry: returns unless can_create, else
\* mkdir, update of the visible page and dialog.close().  The dialog closes
\* after any response.
CreateFolder(via, oserr) ==
  /\ folder.open
  /\ via = "response" => folder.enabled
  /\ IF ~CanCreate(folder.can_create)
     THEN /\ ~oserr
          /\ fs' = fs
          /\ last_op' = FolderRecord(via, FALSE, {}, FALSE)
          /\ folder' = [folder EXCEPT !.open = (via # "response")]
     ELSE \E r \in {Mkdir(fs, folder.path, Strip(folder.text), oserr)} :
            /\ r.fits
            /\ fs' = r.fs
            /\ last_op' = FolderRecord(via, r.raised,
                                       IF r.raised THEN {} ELSE {visible_page},
                                       TRUE)
            /\ folder' = [folder EXCEPT
                            !.open = (r.raised /\ via # "response")]
  /\ UNCHANGED <<popover, renames, trash_can, undo_queue, cut_page,
                 visible_page, toasts, now, batches, post_flowbox, undone,
                 clip>>

\* The "cancel" response, or the dialog closed.
FolderCancel ==
  /\ folder.open
  /\ folder' = [folder EXCEPT !.open = FALSE]
  /\ UNCHANGED <<popover, renames, app_vars>>

-----------------------------------------------------------------------------
(* The environment of HypApplication *)

\* The user opens another page.
Navigate(page) ==
  /\ batches < MaxBatches
  /\ page # visible_page
  /\ visible_page' = page
  /\ UNCHANGED <<fs, trash_can, undo_queue, cut_page, toasts, now, batches,
                 last_op, post_flowbox, undone, clip>>

\* The clock advances.
Tick ==
  /\ 0 < batches
  /\ batches < MaxBatches
  /\ now < MaxClock
  /\ now' = now + 1
  /\ UNCHANGED <<fs, trash_can, undo_queue, cut_page, visible_page, toasts,
                 batches, last_op, post_flowbox, undone, clip>>

\* A toast leaves the screen when its timeout ends.
ToastTimeout(toast) ==
  /\ toast \in toasts
  /\ toasts' = toasts \ {toast}
  /\ UNCHANGED <<fs, trash_can, undo_queue, cut_page, visible_page, now,
                 batches, last_op, post_flowbox, undone, clip>>

\* The filesystems the application starts on: A holds the file c and x (a
\* file, or a directory holding a file c); D holds nothing or a file x.
InitialFs ==
  {[t \in Tops |->
      [n \in Names |->
         IF t = "A" /\ n = "x" THEN ax
         ELSE IF t = "A" /\ n = "c" THEN FileNode(<<"A", "c">>)
         ELSE IF t = "D" /\ n = "x" THEN dx
         ELSE NoNode]] :
     ax \in {FileNode(<<"A", "x">>),
             DirNode([n \in Names |-> IF n = "c" THEN <<"A", "x", "c">>
                                                 ELSE <<>>])},
     dx \in {NoNode, FileNode(<<"D", "x">>)}}

NoOp ==
  [op |-> "none", arg |-> NoKey, raised |-> FALSE, refreshed |-> {},
   pushed |-> 0, ran |-> 0, removed |-> 0, lines |-> <<>>,
   tried |-> <<>>, failed |-> {}, paths |-> <<>>, mode |-> "copy", page |-> NoPage,
   queue_before |-> <<>>, fs_before |-> <<>>, clip |-> FALSE,
   prev |-> NoPrev]

\* No New Folder dialog is open.
NoDialog ==
  [open |-> FALSE, path |-> NoPage, text |-> <<>>, can_create |-> FALSE,
   enabled |-> FALSE]

\* No __rename has run: the popover is hidden, nothing is connected.
DialogInit ==
  /\ popover = [visible |-> FALSE, text |-> <<>>, sensitive |-> TRUE]
  /\ renames = <<>>
  /\ folder = NoDialog

AppInit ==
  /\ fs \in InitialFs
  /\ trash_can = {}
  /\ undo_queue = <<>>
  /\ cut_page = NoPage
  /\ visible_page = "D"
  /\ toasts = {}
  /\ now = 0
  /\ batches = 0
  /\ last_op = NoOp
  /\ post_flowbox \in BOOLEAN
  /\ undone = {}
  /\ clip = FALSE

NextApp ==
  \/ \E lines \in ClipboardTexts :
       \E outs \in [1..Len(lines) -> BOOLEAN] :
         Paste(lines, outs) /\ UNCHANGED <<item_vars, dialog_vars>>
  \/ Copy /\ UNCHANGED <<item_vars, dialog_vars>>
  \/ Cut /\ UNCHANGED <<item_vars, dialog_vars>>
  \/ \E sel \in Selections :
       \E outs \in [1..Len(sel) -> BOOLEAN] :
         Trash(sel, outs) /\ UNCHANGED <<item_vars, dialog_vars>>
  \/ \E arg \in {NoKey} \cup toasts :
       \E outs \in [1..MaxLines -> BOOLEAN] :
         Undo(arg, outs) /\ UNCHANGED <<item_vars, dialog_vars>>
  \/ \E page \in Tops : Navigate(page) /\ UNCHANGED <<item_vars, dialog_vars>>
  \/ Tick /\ UNCHANGED <<item_vars, dialog_vars>>
  \/ \E toast \in toasts :
       ToastTimeout(toast) /\ UNCHANGED <<item_vars, dialog_vars>>

\* The slot alone, the application idle on one filesystem.
InitItem ==
  /\ ItemInit
  /\ AppInit
  /\ DialogInit
  /\ fs = CHOOSE f \in InitialFs : TRUE
  /\ post_flowbox

SpecItem == InitItem /\ [][NextItem]_vars

SpecSampler == InitItem /\ [][NextSampler]_vars /\ CallbacksFire

\* The application alone, no slot bound, the post-flowbox returns lifted:
\* every handler runs the statements written for it.
InitApp == ItemInit /\ AppInit /\ DialogInit /\ ~post_flowbox

SpecApp == InitApp /\ [][NextApp]_vars

\* The application as it stands, the post-flowbox returns in place: no toast
\* is ever sent.
NextStub ==
  \/ \E lines \in ClipboardTexts :
       \E outs \in [1..Len(lines) -> BOOLEAN] :
         Paste(lines, outs) /\ UNCHANGED <<item_vars, dialog_vars>>
  \/ Copy /\ UNCHANGED <<item_vars, dialog_vars>>
  \/ Cut /\ UNCHANGED <<item_vars, dialog_vars>>
  \/ \E sel \in Selections :
       \E outs \in [1..Len(sel) -> BOOLEAN] :
         Trash(sel, outs) /\ UNCHANGED <<item_vars, dialog_vars>>
  \/ \E outs \in [1..MaxLines -> BOOLEAN] :
       Undo(NoKey, outs) /\ UNCHANGED <<item_vars, dialog_vars>>
  \/ \E page \in Tops : Navigate(page) /\ UNCHANGED <<item_vars, dialog_vars>>
  \/ Tick /\ UNCHANGED <<item_vars, dialog_vars>>

InitStub == ItemInit /\ AppInit /\ DialogInit /\ post_flowbox

SpecStub == InitStub /\ [][NextStub]_vars

\* The rename popover, the post-flowbox returns lifted: while the popover is
\* open the user acts on it alone.
NextRename ==
  \/ \E child \in Children : Rename(child) /\ UNCHANGED item_vars
  \/ \E text \in Texts : Type(text) /\ UNCHANGED item_vars
  \/ \E outs \in [1..MaxRenames -> BOOLEAN] :
       Confirm("entry-activated", outs) /\ UNCHANGED item_vars
  \/ \E outs \in [1..MaxRenames -> BOOLEAN] :
       Confirm("clicked", outs) /\ UNCHANGED item_vars
  \/ Dismiss /\ UNCHANGED item_vars
  \/ \E outs \in [1..MaxLines -> BOOLEAN] :
       /\ ~popover.visible
       /\ Undo(NoKey, outs)
       /\ UNCHANGED <<item_vars, dialog_vars>>
  \/ \E page \in Tops :
       /\ ~popover.visible
       /\ Navigate(page)
       /\ UNCHANGED <<item_vars, dialog_vars>>
  \/ ~popover.visible /\ Tick /\ UNCHANGED <<item_vars, dialog_vars>>

InitRename == ItemInit /\ AppInit /\ DialogInit /\ ~post_flowbox

\* The New Folder dialog, on the application as it stands: the dialog is
\* modal, so while it is open the user acts on it alone.
NextFolder ==
  \/ NewFolder /\ UNCHANGED item_vars
  \/ \E text \in Texts : FolderType(text) /\ UNCHANGED item_vars
  \/ \E oserr \in BOOLEAN :
       CreateFolder("response", oserr) /\ UNCHANGED item_vars
  \/ \E oserr \in BOOLEAN :
       CreateFolder("entry-activated", oserr) /\ UNCHANGED item_vars
  \/ FolderCancel /\ UNCHANGED item_vars
  \/ \E page \in Tops :
       /\ ~folder.open
       /\ Navigate(page)
       /\ UNCHANGED <<item_vars, dialog_vars>>

InitFolder == ItemInit /\ AppInit /\ DialogInit /\ post_flowbox

SpecFolder == InitFolder /\ [][NextFolder]_vars

SpecRename == InitRename /\ [][NextRename]_vars

-----------------------------------------------------------------------------
(* Claims about the preview slot, checked under SpecItem *)

\* C1: when the slot has been re-bound while an earlier bind's thumbnail
\* generation or directory enumeration is in flight, the late callback of the
\* earlier request changes none of the slot's widgets.
C1_StaleResultDiscarded == last_cb.stale => ~last_cb.changed

\* C2: a sink call made while the slot is unbound changes none of the slot's
\* widgets.
C2_UnboundResultDiscarded == last_cb.unbound => ~last_cb.changed

\* C3: every directory request accepts at most 3 children, and the folder
\* preview it delivers is open if and only if it accepted at least one; while
\* the delivering call is the slot's latest sink call of its current binding,
\* the picture shows the matching folder texture.
C3_SamplerBound ==
  \A r \in 1..MaxBinds :
    /\ sampler[r].accepted <= 3
    /\ sampler[r].delivered => (sampler[r].open <=> sampler[r].accepted > 0)
    /\ (/\ sampler[r].delivered
        /\ r = gen
        /\ last_cb.req = r
        /\ last_cb.kind \in {"dir_children", "next_files"})
         => ui.thumbnail_paintable =
              IF sampler[r].accepted > 0 THEN open_folder_texture
                                         ELSE closed_folder_texture

\* C3 witness: one request delivered a closed folder after accepting nothing,
\* another an open folder after accepting three children.
C3_Witness ==
  \E r1, r2 \in 1..MaxBinds :
    /\ sampler[r1].delivered /\ sampler[r1].accepted = 0 /\ ~sampler[r1].open
    /\ sampler[r2].delivered /\ sampler[r2].accepted = 3 /\ sampler[r2].open
    /\ ui.thumbnail_paintable = open_folder_texture

-----------------------------------------------------------------------------
(* Claims about paste, trash and undo, checked under SpecApp *)

\* seq without the element n.
Less(seq, n) == SelectSeq(seq, LAMBDA x : x # n)

\* A default undo: __undo called by the app.undo action on a non-empty queue.
DefaultUndo ==
  /\ last_op.op = "undo"
  /\ last_op.arg = NoKey
  /\ last_op.queue_before # <<>>

\* C4: an undo that names no entry, on a non-empty queue, runs the inverse of
\* the entry pushed last among those in the queue and removes exactly that
\* entry; the older entries stay, in their order.
C4_DefaultUndoIsLifo ==
  DefaultUndo =>
    LET newest == SeqMax(last_op.queue_before)
    IN /\ last_op.ran = newest
       /\ last_op.removed = newest
       /\ Batches(undo_queue) = Less(last_op.queue_before, newest)

\* An undo for the toast of a trash batch that is in the queue.
ToastUndo ==
  /\ last_op.op = "undo"
  /\ last_op.arg.kind = "toast"
  /\ last_op.arg.id \in Range(last_op.queue_before)

PasteThenUndo(mode) ==
  /\ last_op.op = "undo"
  /\ last_op.prev.op = "paste"
  /\ last_op.prev.mode = mode
  /\ last_op.prev.pushed # 0
  /\ last_op.ran = last_op.prev.pushed

\* C6: after a paste in copy mode and the undo of the entry it recorded, the
\* destination directory holds the entries it held before the paste.
C6_CopyUndoRoundTrip ==
  PasteThenUndo("copy") =>
    fs[last_op.prev.page] = last_op.prev.fs_before[last_op.prev.page]

\* The lines of the last paste that name an existing source whose name is
\* taken at the destination before the paste.
Collisions ==
  {i \in 1..Len(last_op.lines) :
     /\ last_op.lines[i] # TagLine
     /\ Exists(last_op.fs_before, last_op.lines[i])
     /\ Exists(last_op.fs_before, <<last_op.page, Last(last_op.lines[i])>>)}

\* C7: in a copy batch a source whose name exists at the destination fails
\* alone: the entry there before is unchanged and its path is not recorded
\* for undo.
C7_CopyCollisionFails ==
  (last_op.op = "paste" /\ last_op.mode = "copy") =>
    \A i \in Collisions :
      LET dst == <<last_op.page, Last(last_op.lines[i])>>
      IN /\ Get(fs, dst) = Get(last_op.fs_before, dst)
         /\ dst \notin Range(last_op.paths)

\* C8: after a paste in move mode and the undo of the entry it recorded, every
\* moved item is back at its original path and gone from the destination; the
\* items whose move failed are not among the recorded sources.
C8_MoveUndoRoundTrip ==
  PasteThenUndo("cut") =>
    LET p == last_op.prev
    IN /\ \A k \in 1..Len(p.paths) :
            /\ Get(fs, p.paths[k][1]) = Get(p.fs_before, p.paths[k][1])
            /\ ~Exists(fs, p.paths[k][2])
       /\ \A i \in p.failed :
            \A k \in 1..Len(p.paths) : p.paths[k][1] # p.lines[i]

\* p is q or an ancestor of q.
IsPrefix(p, q) == Len(p) <= Len(q) /\ SubSeq(q, 1, Len(p)) = p

\* The lines of the last paste whose move succeeded, in processing order.
Succeeded == SelectSeq(last_op.tried, LAMBDA i : i \notin last_op.failed)

\* The lines of the last paste that name a source existing before the paste
\* and not moved away earlier in the batch.
Eligible ==
  {i \in 1..Len(last_op.lines) :
     /\ last_op.lines[i] # TagLine
     /\ Exists(last_op.fs_before, last_op.lines[i])
     /\ \A k \in 1..Len(Succeeded) :
          Succeeded[k] < i =>
            ~IsPrefix(last_op.lines[Succeeded[k]], last_op.lines[i])}

\* The entry the last handler pushed.
PushedItem == undo_queue[CHOOSE i \in 1..Len(undo_queue) :
                           undo_queue[i].n = last_op.pushed].item

\* C9: in a move batch a failed move skips that item alone: every other line
\* naming a source is attempted, a failed item stays in its directory, and
\* the entry recorded holds exactly the (source, destination) pairs of the
\* moves that succeeded, in processing order.
C9_MoveFailureSkipsItem ==
  (last_op.op = "paste" /\ last_op.mode = "cut") =>
    /\ ~last_op.raised
    /\ Eligible \subseteq Range(last_op.tried)
    /\ \A i \in last_op.failed :
         \/ Exists(fs, last_op.lines[i])
         \/ \E k \in 1..Len(Succeeded) :
              IsPrefix(last_op.lines[Succeeded[k]], last_op.lines[i])
    /\ last_op.pushed # 0
    /\ PushedItem.kind = "cut"
    /\ PushedItem.pairs =
         [k \in 1..Len(Succeeded) |->
            <<last_op.lines[Succeeded[k]],
              <<last_op.page, Last(last_op.lines[Succeeded[k]])>>>>]

\* C9 witness: a move batch of two lines whose first move failed and whose
\* second succeeded and was recorded.
C9_Witness ==
  /\ last_op.op = "paste"
  /\ last_op.mode = "cut"
  /\ last_op.tried = <<1, 2>>
  /\ last_op.failed = {1}
  /\ Len(PushedItem.pairs) = 1
  /\ PushedItem.pairs[1][1] = last_op.lines[2]

\* C10: in a copy batch a failure copying one item is isolated to it: no
\* exception leaves the batch, every other line naming a source is processed,
\* the listing is refreshed and an undo entry is recorded.
C10_CopyFailureIsolated ==
  (last_op.op = "paste" /\ last_op.mode = "copy") =>
    /\ ~last_op.raised
    /\ Eligible \subseteq Range(last_op.tried)
    /\ last_op.page \in last_op.refreshed
    /\ last_op.pushed # 0

\* C11: a paste batch in which no item succeeds creates no undo entry: the
\* undo queue after the batch is the undo queue before it.
C11_EmptyBatchPushesNothing ==
  (last_op.op = "paste" /\ last_op.paths = <<>>) =>
    Batches(undo_queue) = last_op.queue_before

\* C12: undo is one-shot: an undo that selected an entry removes that entry
\* from the queue, whether or not its reversal succeeded.
C12_UndoOneShot ==
  (last_op.op = "undo" /\ last_op.ran # 0) =>
    last_op.ran \notin Range(Batches(undo_queue))

\* The selected items whose trash() succeeded, in processing order.
Trashed == SelectSeq(last_op.tried, LAMBDA i : i \notin last_op.failed)

\* C13: trash records exactly the selected items whose trash call succeeded,
\* which are gone from the listing while the failed ones stay; when none
\* succeeded no undo entry is pushed, no toast is sent and no listing is
\* refreshed.
C13_TrashRecordsSucceeded ==
  last_op.op = "trash" =>
    /\ \A i \in 1..Len(last_op.lines) :
         IF i \in last_op.failed
         THEN Get(fs, last_op.lines[i]) = Get(last_op.fs_before, last_op.lines[i])
         ELSE ~Exists(fs, last_op.lines[i])
    /\ IF Trashed = <<>>
       THEN /\ last_op.pushed = 0
            /\ Batches(undo_queue) = last_op.queue_before
            /\ ToastKey(batches) \notin toasts
            /\ last_op.refreshed = {}
       ELSE /\ last_op.pushed # 0
            /\ PushedItem.kind = "trash"
            /\ PushedItem.page = last_op.page
            /\ [k \in 1..Len(PushedItem.files) |-> PushedItem.files[k].path] =
                 [k \in 1..Len(Trashed) |-> last_op.lines[Trashed[k]]]

\* C13 witness: two items selected, the first fails to trash, the second is
\* trashed and is the only one recorded.
C13_Witness ==
  /\ last_op.op = "trash"
  /\ Len(last_op.lines) = 2
  /\ last_op.failed = {1}
  /\ last_op.pushed # 0
  /\ Len(PushedItem.files) = 1
  /\ PushedItem.files[1].path = last_op.lines[2]

\* C16: every completed paste refreshes the listing of the destination and,
\* for a move, the listing the items were cut from; every undo that changed
\* the filesystem refreshes every listing recorded in its entry and the
\* visible page.
C16_ListingsRefreshed ==
  /\ (last_op.op = "paste" /\ ~last_op.raised) =>
       /\ last_op.page \in last_op.refreshed
       /\ last_op.mode = "cut" => PushedItem.cut_page \in last_op.refreshed
  /\ (last_op.op = "undo" /\ fs # last_op.fs_before) =>
       /\ last_op.item.page \in last_op.refreshed
       /\ last_op.page \in last_op.refreshed
       /\ last_op.item.kind = "cut" =>
            last_op.item.cut_page \in last_op.refreshed

\* C17: a batch that records an undo entry makes the queue one longer and
\* leaves the earlier entries where they were.
C17_PushAppends ==
  (last_op.op \in {"paste", "trash"} /\ last_op.pushed # 0) =>
    Batches(undo_queue) = Append(last_op.queue_before, last_op.pushed)

\* C18: the entry an undo removes is the entry whose inverse it ran, and no
\* entry's inverse runs twice.
C18_RemovedIffUndone ==
  last_op.op = "undo" =>
    /\ last_op.removed # 0 => last_op.removed = last_op.ran
    /\ ~last_op.again

\* C19: a paste after a Cut followed by a Copy runs in copy mode: the sources
\* it processed are still where they were and the entry recorded is a "copy".
C19_CopyAfterCutPastesCopy ==
  (last_op.op = "paste" /\ last_op.clip) =>
    /\ last_op.mode = "copy"
    /\ \A i \in Range(last_op.tried) : Exists(fs, last_op.lines[i])
    /\ last_op.pushed # 0 => PushedItem.kind = "copy"

-----------------------------------------------------------------------------
(* Claims about the rename popover, checked under SpecRename *)

-----------------------------------------------------------------------------
(* Claims about the directory sampler, checked under SpecSampler *)

\* The next_files_async calls of request r whose callback has not run.
Outstanding(r) == {p \in next_pending : p.req = r}

\* C20: for every request whose enumeration started, at most one
\* next_files_async call is outstanding at any time, at most 4 are issued in
\* all, the folder preview is not delivered while one is outstanding and is
\* never delivered twice; and, every callback firing in the end, the sampler
\* comes to rest with no call outstanding and the preview delivered once.
C20_SamplerTerminates ==
  /\ [](\A r \in 1..MaxBinds :
          sampler[r].started =>
            /\ Cardinality(Outstanding(r)) <= 1
            /\ sampler[r].requests <= 4
            /\ sampler[r].deliveries <= 1
            /\ sampler[r].deliveries = 1 => Outstanding(r) = {})
  /\ \A r \in 1..MaxBinds :
       sampler[r].started ~>
         [](Outstanding(r) = {} /\ sampler[r].deliveries = 1)

\* The longest run: three children accepted, four calls issued, the fourth
\* callback delivering the preview.
C20_Witness ==
  \E r \in 1..MaxBinds :
    /\ sampler[r].started
    /\ sampler[r].requests = 4
    /\ sampler[r].accepted = 3
    /\ sampler[r].deliveries = 1
    /\ Outstanding(r) = {}

\* The sink call made last is the delivery that ended the sampler of the
\* slot's current binding.
SamplingFinished ==
  /\ gen > 0
  /\ last_cb.kind = "next_files"
  /\ last_cb.req = gen
  /\ sampler[gen].delivered

\* C21: when the sampler of the current binding finishes having accepted k
\* children, the stack slots 1..k are visible and the others are hidden.
C21_VisibleSlotsAreAccepted ==
  SamplingFinished =>
    \A k \in StackSlots :
      ui.dir_thumbnail_visible[k] <=> k <= sampler[gen].accepted

-----------------------------------------------------------------------------
(* Claims about the children sampled and about bind, checked under SpecItem *)

\* C22: a step of next_files_cb that accepts a child directory gives its
\* stack slot the fixed treatment (the directory classes, picture hidden),
\* starts no generator thread and no enumeration.
C22_ChildDirectoryNotExpanded ==
  [][\A p \in next_pending :
       (p.index # StackLimit /\ NextFilesCb(p, "dir")) =>
         /\ threads' = threads
         /\ enum_pending' = enum_pending
         /\ ui'.dir_thumbnail_css[p.index + 1] =
              "light-blue-background white-icon"
         /\ ui'.dir_icon_css[p.index + 1] = "init"
         /\ ~ui'.dir_picture_visible[p.index + 1]]_vars

\* A child directory was accepted for stack slot 2 while a generator thread
\* of the same request is still running for slot 1.
C22_Witness ==
  /\ gen > 0
  /\ last_cb.kind = "next_files"
  /\ last_cb.req = gen
  /\ sampler[gen].accepted = 2
  /\ ui.dir_thumbnail_css[2] = "light-blue-background white-icon"
  /\ threads = {[req |-> gen, slot |-> 1]}

\* The slot shows the fallback icon: the picture and the play affordance are
\* hidden and the icon carries the colour of the content type.
FallbackIcon(u, ct) ==
  /\ ~u.picture_visible
  /\ ~u.play_button_visible
  /\ u.icon_css = get_color_for_symbolic(ct) \o "-icon"

\* C23: bind of a file without thumbnail path either, the filesystem
\* reporting NEVER, delivers the fallback icon within bind and starts no
\* thread, or else starts one generator thread for the entry and makes no
\* sink call.
C23_BindWithoutThumbnailPath ==
  [][\A e \in FileInfos :
       (e.content_type # DirType /\ e.thumbnail_path = "" /\ Bind(e)) =>
         IF e.use_preview = "NEVER"
         THEN /\ threads' = threads
              /\ FallbackIcon(ui', e.content_type)
              /\ last_cb'.kind = "bind"
              /\ last_cb'.req = gen'
         ELSE /\ threads' \ threads = {[req |-> gen', slot |-> 0]}
              /\ threads \subseteq threads'
              /\ ui' = ui
              /\ last_cb' = last_cb]_vars

\* The slot, bound first to a file whose thread is still running, is bound
\* again to a file of a NEVER filesystem and shows the fallback icon.
C23_Witness ==
  /\ gen = 2
  /\ threads = {[req |-> 1, slot |-> 0]}
  /\ file_info.content_type # DirType
  /\ file_info.thumbnail_path = ""
  /\ file_info.use_preview = "NEVER"
  /\ last_cb.kind = "bind"
  /\ last_cb.req = 2
  /\ FallbackIcon(ui, content_type)

\* C24: bind of a file with a thumbnail path starts no thread and delivers
\* within bind the decoded thumbnail, or the fallback icon when the cached
\* image does not decode.
C24_BindWithThumbnailPath ==
  [][\A e \in FileInfos :
       (e.content_type # DirType /\ e.thumbnail_path # "" /\ Bind(e)) =>
         /\ threads' = threads
         /\ last_cb'.kind = "bind"
         /\ last_cb'.req = gen'
         /\ bound'
         /\ IF e.thumbnail_path = "ok"
            THEN /\ ui'.picture_visible
                 /\ ui'.thumbnail_paintable = CachedTexture(gen', 0)
            ELSE FallbackIcon(ui', e.content_type)]_vars

\* A slot that showed a decoded thumbnail is bound to a file whose cached
\* image does not decode, and shows the fallback icon.
C24_Witness ==
  /\ gen = 2
  /\ file_info.content_type # DirType
  /\ file_info.thumbnail_path = "bad"
  /\ last_cb.kind = "bind"
  /\ last_cb.req = 2
  /\ ui.thumbnail_paintable = CachedTexture(1, 0)
  /\ FallbackIcon(ui, content_type)

\* C25: a step of next_files_cb on a child file whose cached thumbnail does
\* not decode lets no exception out of the callback and leaves the picture
\* of the child's stack slot hidden.
C25_ChildDecodeFailureSilent ==
  [][\A p \in next_pending :
       (p.index # StackLimit /\ NextFilesCb(p, "badcache")) =>
         /\ ~last_cb'.raised
         /\ ~ui'.dir_picture_visible[p.index + 1]]_vars

\* C26: a step of next_files_cb on a child file without thumbnail path, in
\* a location whose filesystem reports previews as NEVER, starts no
\* generator thread and leaves the picture of the child's slot hidden.
C26_ChildNeverStartsNoThread ==
  [][\A p \in next_pending :
       (p.index # StackLimit /\ NextFilesCb(p, "never")) =>
         /\ threads' = threads
         /\ ~ui'.dir_picture_visible[p.index + 1]]_vars

\* What a call of __thumbnail_cb with texture tex must leave: the play
\* button shown if and only if tex is an image and the slot's content type
\* is audio or video, and then on a slot that is no directory and shows tex,
\* not the fallback icon.
PlayAffordance(tex) ==
  /\ ui'.play_button_visible <=>
       (tex # NoTexture /\ content_type' = "video/mp4")
  /\ ui'.play_button_visible =>
       /\ ~is_dir'
       /\ content_type' # DirType
       /\ ui'.picture_visible
       /\ ui'.thumbnail_paintable = tex

\* C27: every step that delivers a result to the slot (a bind that makes a
\* sink call itself, a generator thread of the entry ending, a sampler
\* delivering the folder preview) leaves the play affordance as
\* PlayAffordance says.
C27_PlayAffordance ==
  [][/\ (gen' # gen /\ last_cb' # last_cb) =>
          PlayAffordance(BindTexture(file_info', gen'))
     /\ \A t \in threads \ threads' : \A got \in BOOLEAN :
          (t.slot = 0 /\ ThumbnailThread(t, got)) =>
            PlayAffordance(IF got THEN GeneratedTexture(t.req, 0)
                                  ELSE NoTexture)
     /\ \A r \in 1..MaxBinds :
          (sampler'[r].deliveries # sampler[r].deliveries) =>
            PlayAffordance(NoTexture)]_vars

\* A generator thread delivered the thumbnail of the video the slot is
\* bound to: the play affordance is shown.
C27_Witness ==
  /\ last_cb.kind = "thread"
  /\ last_cb.req = gen
  /\ content_type = "video/mp4"
  /\ ui.play_button_visible
  /\ ui.thumbnail_paintable = GeneratedTexture(gen, 0)

-----------------------------------------------------------------------------
(* Claims about undo on an empty queue, checked under SpecApp *)

\* C29: a step of __undo taken while the queue is empty changes neither the
\* filesystem nor the trash, refreshes no page, dismisses no toast, raises
\* nothing and leaves the queue empty.
C29_UndoOnEmptyQueue ==
  [][(undo_queue = <<>> /\ last_op' # last_op /\ last_op'.op = "undo") =>
       /\ fs' = fs
       /\ trash_can' = trash_can
       /\ toasts' = toasts
       /\ undo_queue' = <<>>
       /\ ~last_op'.raised
       /\ last_op'.refreshed = {}
       /\ last_op'.ran = 0
       /\ last_op'.removed = 0]_vars

\* The button of a toast still on screen was clicked after the queue had
\* been emptied by other undos.
C29_Witness ==
  /\ last_op.op = "undo"
  /\ last_op.queue_before = <<>>
  /\ last_op.arg.kind = "toast"
  /\ last_op.arg \in toasts
  /\ undo_queue = <<>>

-----------------------------------------------------------------------------
(* Claims about the New Folder dialog, checked under SpecFolder *)

\* C28: create_folder calls mkdir, and so changes the filesystem, only when
\* the stripped text of the entry is a name the policy accepts for the
\* dialog's directory; with an empty or rejected text neither the "create"
\* response nor Enter in the entry changes the filesystem.
C28_FolderOnlyValidNames ==
  last_op.op = "new_folder" =>
    ((last_op.mkdir \/ fs # last_op.fs_before) =>
       /\ Strip(last_op.text) # <<>>
       /\ validate_new_name(last_op.fs_before, last_op.path,
                            Strip(last_op.text)))

\* Enter was pressed in the entry holding the name of an existing entry:
\* nothing was created and the dialog is still open.
C28_Witness ==
  /\ last_op.op = "new_folder"
  /\ last_op.via = "entry-activated"
  /\ IsName(Strip(last_op.text))
  /\ Exists(fs, <<last_op.path, Strip(last_op.text)[1]>>)
  /\ ~last_op.mkdir
  /\ fs = last_op.fs_before
  /\ folder.open

====
